---- MODULE Spec2Model ----
(***************************************************************************)
(* Model of libc/af_local.cc: the AF_LOCAL stream socket pair of OSv.      *)
(*                                                                         *)
(* Two af_local_buffer objects (1 and 2) are shared by two af_local pairs, *)
(* one behind each file ("A" and "B").  Threads call the file operations   *)
(* af_local_read, af_local_write, af_local_poll and af_local_close.        *)
(* A scatter/gather buffer (uio) is a sequence of segments (uio_iov) and a *)
(* residual count (uio_resid).  Event masks are sets of event names:       *)
(* bitwise or is union, bitwise and is intersection, a mask is "true" when *)
(* it is not empty.                                                        *)
(***************************************************************************)
EXTENDS Integers, Sequences, FiniteSets, TLC

\* Capacity of one af_local_buffer (8192 in the source), scaled down.
max_buf == 4
\* Longest segment of a two-segment caller buffer.
MaxSegLen == 2
\* Number of distinct byte values a writer cycles through.
NBytes == 2

Buffers == {1, 2}
Files == {"A", "B"}
Threads == {"t1", "t2"}
NULL == "null"
\* The invalid-argument error.
EINVAL == 22
\* The socket types and the roles of a buffer.
SOCK_STREAM == "SOCK_STREAM"
SOCK_DGRAM == "SOCK_DGRAM"
AllRoles == {<<b, r>> : b \in {1, 2}, r \in {"sender", "receiver"}}
\* errno of a write with no receiver.
EPIPE == 32
\* A byte of a read buffer that no read has written.
JUNK == 0 - 1
\* f_data of a closed file (nullptr).
NoPair == [send |-> 0, receive |-> 0]
\* Marks a byte history that is no longer first-in first-out.
BROKEN == <<0 - 2>>

POLLIN == {"POLLIN"}
POLLOUT == {"POLLOUT"}
POLLHUP == {"POLLHUP"}
POLLRDHUP == {"POLLRDHUP"}

VARIABLES
    q,          \* q[b]: the byte queue of buffer b
    sender,     \* sender[b]: the file attached as sender, or NULL
    receiver,   \* receiver[b]: the file attached as receiver, or NULL
    refs,       \* refs[b]: reference count of buffer b
    mtx,        \* mtx[b]: the thread holding b's mutex, or NULL
    may_read,   \* may_read[b]: threads waiting on condvar may_read
    may_write,  \* may_write[b]: threads waiting on condvar may_write
    f_data,     \* f_data[f]: the af_local of file f, or NoPair once closed
    pc,         \* pc[t]: where thread t stands in its current call
    uio,        \* uio[t]: the uio of the call thread t is in
    cur,        \* cur[t]: the call thread t is in
    vals,       \* the number of byte values the writers cycle through
    wpos,       \* wpos[f]: value of the next byte f's writer will offer
    pending,    \* pending[b]: bytes accepted by writes, not yet returned
    last,       \* what the last step did that its caller or others can see
    sp,         \* the call of socketpair_af_local that makes the pair
    heap        \* heap[b]: whether buffer b is allocated, live or deleted

vars == <<q, sender, receiver, refs, mtx, may_read, may_write, f_data,
          pc, uio, cur, vals, wpos, pending, last, sp, heap>>

chan == <<q, sender, receiver, refs, mtx, may_read, may_write>>

(***************************************************************************)
(* Sequences and caller buffers.                                           *)
(***************************************************************************)
Min(a, b) == IF a < b THEN a ELSE b

Take(s, n) == SubSeq(s, 1, Min(n, Len(s)))

Drop(s, n) == SubSeq(s, n + 1, Len(s))

RECURSIVE Sum(_)
Sum(s) == IF s = <<>> THEN 0 ELSE Head(s) + Sum(Tail(s))

RECURSIVE Flatten(_)
Flatten(segs) == IF segs = <<>> THEN <<>> ELSE Head(segs) \o Flatten(Tail(segs))

IsPrefix(s, r) == Len(s) <= Len(r) /\ SubSeq(r, 1, Len(s)) = s

\* The segment layouts a caller passes: one segment of any length up to one
\* more than the capacity, or two segments of up to MaxSegLen bytes each.
Layouts ==
    { <<n>> : n \in 0..(max_buf + 1) } \cup
    { <<a, c>> : a \in 0..MaxSegLen, c \in 0..MaxSegLen }

\* A read buffer of the given layout, not yet written.
ReadBuf(lens) == [k \in 1..Len(lens) |-> [j \in 1..lens[k] |-> JUNK]]

\* A write buffer of the given layout holding the next bytes of the stream,
\* which starts at value w.
WriteBuf(lens, w) ==
    [k \in 1..Len(lens) |->
        [j \in 1..lens[k] |-> (w + Sum(SubSeq(lens, 1, k - 1)) + j - 1) % vals]]

NoUio == [uio_iov |-> <<>>, uio_resid |-> 0]

\* The call a thread is in: the operation, the file and the buffer it works
\* on, the requested length (orig), whether the peer role was already detached
\* when the call was made (hup), whether the call has waited on the condition
\* variable (waited), the queue length a write found when it became ready to
\* copy (q0), the error to return, and the masks of a poll.
NoCall == [op |-> "none", f |-> NULL, b |-> 0, orig |-> 0, hup |-> FALSE,
           waited |-> FALSE, q0 |-> 0, err |-> 0, events |-> {},
           revents |-> {}]

\* What a step shows: op is "read", "write", "poll" or "close" when the step
\* returns from that call (with the requested length, the bytes moved, the
\* error, the masks), "step" otherwise; wakes are the poll_wake calls of the
\* step and cv the condition variables it called wake_all on.
Ev0 == [op |-> "init", t |-> NULL, b |-> 0, req |-> 0, n |-> 0, err |-> 0,
        hup |-> FALSE, waited |-> FALSE, events |-> {}, revents |-> {},
        wakes |-> {}, cv |-> {}, held |-> {}]

\* Bytes the call of t has transferred so far, as its caller counts them.
Moved(t) == cur[t].orig - uio[t].uio_resid

(***************************************************************************)
(* af_local_buffer: readiness.                                             *)
(***************************************************************************)
\* A read_events_unlocked that does not report the hangup.
read_events_no_hangup(b) == IF q[b] # <<>> THEN POLLIN ELSE {}

read_events_unlocked(b) ==
    (IF q[b] # <<>> THEN POLLIN ELSE {}) \cup
    (IF sender[b] = NULL THEN POLLRDHUP ELSE {})

\* A write_events_unlocked that looks at the space before the receiver.
write_events_space_first(b) ==
    IF Len(q[b]) < max_buf
    THEN POLLOUT
    ELSE (IF receiver[b] = NULL THEN POLLHUP ELSE {})

write_events_unlocked(b) ==
    IF receiver[b] = NULL
    THEN POLLHUP
    ELSE (IF Len(q[b]) < max_buf THEN POLLOUT ELSE {})

(***************************************************************************)
(* The state after socketpair_af_local has returned 0: two empty buffers,  *)
(* pair A = (send 1, receive 2), pair B = (send 2, receive 1), both files  *)
(* initialised by af_local_init.                                           *)
(***************************************************************************)
\* Both af_local built on (b1, b2).
PairsAlike == [f \in {"A", "B"} |-> [send |-> 1, receive |-> 2]]

\* The af_local pairs socketpair_af_local builds: s1 (for file A) sends on
\* b1 and receives on b2, s2 (for file B) sends on b2 and receives on b1.
Pairs == ("A" :> [send |-> 1, receive |-> 2] @@
          "B" :> [send |-> 2, receive |-> 1])

\* The call of socketpair_af_local: where it stands (pc), its arguments, the
\* step chosen to fail (fail), whether s1 and s2 still own their af_local,
\* the state of the file handles f1 and f2, the descriptors installed (fd),
\* what was stored in sv, the value returned (ret: 0, or JUNK for the error
\* falloc or fdesc threw), and the roles attached so far.
NoCreate == [pc |-> "start", type |-> SOCK_STREAM, proto |-> 0,
             fail |-> "none", s1 |-> FALSE, s2 |-> FALSE, f1 |-> "none",
             f2 |-> "none", fd |-> {}, sv |-> <<>>, ret |-> 0,
             attached |-> {}]

\* socketpair_af_local has returned 0 and both descriptors are the caller's.
Made == [NoCreate EXCEPT !.pc = "done", !.f1 = "init", !.f2 = "init",
                         !.fd = {"A", "B"}, !.sv = <<"A", "B">>,
                         !.attached = AllRoles]

Connected ==
    /\ q = [b \in Buffers |-> <<>>]
    /\ sender = (1 :> "A" @@ 2 :> "B")
    /\ receiver = (1 :> "B" @@ 2 :> "A")
    /\ refs = [b \in Buffers |-> 2]
    /\ mtx = [b \in Buffers |-> NULL]
    /\ may_read = [b \in Buffers |-> {}]
    /\ may_write = [b \in Buffers |-> {}]
    /\ f_data = Pairs
    /\ pc = [t \in Threads |-> "idle"]
    /\ uio = [t \in Threads |-> NoUio]
    /\ cur = [t \in Threads |-> NoCall]
    /\ wpos = [f \in Files |-> 0]
    /\ pending = [b \in Buffers |-> <<>>]
    /\ last = Ev0
    /\ sp = Made
    /\ heap = [b \in Buffers |-> "live"]

\* Every byte written has the same value.
Init == Connected /\ vals = 1

\* The writers cycle through NBytes byte values.
FifoInit == Connected /\ vals = NBytes

\* The file each thread works on.
FileOf(t) == IF t = "t1" THEN "A" ELSE "B"

\* A file operation may start on an open file; close runs only when no other
\* operation on the file is in flight (the file layer calls it on last drop).
Open(f) == sp.pc = "done" /\ f_data[f] # NoPair

InFlight(f) == \E u \in Threads : pc[u] # "idle" /\ cur[u].f = f

Step(t) == [Ev0 EXCEPT !.op = "step", !.t = t]

\* pc after a step of t that wakes every thread in waiters (condvar wake_all):
\* a woken thread must take the mutex again before it returns from wait.
Woken(waiters, relock, t, tpc) ==
    [u \in Threads |->
        IF u = t THEN tpc ELSE IF u \in waiters THEN relock ELSE pc[u]]

\* What a finished call reports: the bytes moved and the error.
Return(t, op) ==
    [Ev0 EXCEPT !.op = op, !.t = t, !.b = cur[t].b, !.req = cur[t].orig,
                !.n = Moved(t), !.err = cur[t].err, !.hup = cur[t].hup,
                !.waited = cur[t].waited]

\* A detach that works on the buffer without taking its mutex.
lock_guard_none(b) == {}

\* std::lock_guard<mutex> guard(mtx) of detach_sender and detach_receiver:
\* the mutexes held while the buffer is changed.
lock_guard(b) == {b}

\* with_lock(mtx, ...) of read and write.
with_lock(b) == {b}

\* attach_sender and attach_receiver take no mutex.
attach_lock(f) == {}

(***************************************************************************)
(* af_local_buffer::read, called through af_local_read on the receive      *)
(* buffer of the caller's pair.                                            *)
(***************************************************************************)
\* A test that never finds a request empty.
no_bytes_never(resid) == FALSE

\* The test read and write make first: nothing is requested.
no_bytes(resid) == resid = 0

\* n of one pass of the read loop.
read_chunk(b, t) == Min(Len(q[b]), Len(uio[t].uio_iov[1]))

\* The loop condition of read.
read_more(b, t) ==
    uio[t].uio_resid # 0 /\ (read_events_unlocked(b) \cap POLLIN) # {}

\* The poll_wake read issues after its loop.
read_notify(b) ==
    IF write_events_unlocked(b) # {} /\ POLLOUT # {}
    THEN {<<sender[b], POLLOUT>>}
    ELSE {}

\* The bytes a read hands back to its caller: the first Moved(t) bytes of the
\* caller's buffer.
Returned(t) ==
    IF Moved(t) <= Len(Flatten(uio[t].uio_iov))
    THEN Take(Flatten(uio[t].uio_iov), Moved(t))
    ELSE BROKEN

\* With the mutex, for the call c of t: wait while no read event is set
\* (the wait releases the mutex atomically); leave on hangup alone; otherwise
\* enter the copy loop.
read_check(t, b, c) ==
    LET r == read_events_unlocked(b) IN
    /\ mtx[b] = NULL
    /\ IF r = {}
       THEN /\ may_read' = [may_read EXCEPT ![b] = @ \cup {t}]
            /\ pc' = [pc EXCEPT ![t] = "r_wait"]
            /\ cur' = [cur EXCEPT ![t] = [c EXCEPT !.waited = TRUE]]
            /\ UNCHANGED mtx
       ELSE IF (r \cap POLLIN) = {}
       THEN /\ pc' = [pc EXCEPT ![t] = "r_wake"]
            /\ cur' = [cur EXCEPT ![t] = c]
            /\ UNCHANGED <<mtx, may_read>>
       ELSE /\ mtx' = [mtx EXCEPT ![b] = t]
            /\ pc' = [pc EXCEPT ![t] = "r_copy"]
            /\ cur' = [cur EXCEPT ![t] = c]
            /\ UNCHANGED may_read

\* The call: a request of no bytes returns at once, before the mutex is
\* taken; any other takes the mutex and checks the read events.
af_local_read(t, lens) ==
    LET f == FileOf(t) IN
    /\ pc[t] = "idle"
    /\ Open(f)
    /\ LET b == f_data[f].receive IN
       IF no_bytes(Sum(lens))
       THEN /\ last' = [Ev0 EXCEPT !.op = "read", !.t = t, !.b = b,
                                   !.hup = (sender[b] = NULL)]
            /\ UNCHANGED <<chan, f_data, pc, uio, cur, wpos, pending, vals, sp, heap>>
       ELSE /\ read_check(t, b, [NoCall EXCEPT !.op = "read", !.f = f, !.b = b,
                                               !.orig = Sum(lens),
                                               !.hup = (sender[b] = NULL)])
            /\ uio' = [uio EXCEPT ![t] = [uio_iov |-> ReadBuf(lens),
                                          uio_resid |-> Sum(lens)]]
            /\ last' = Step(t)
            /\ UNCHANGED <<q, sender, receiver, refs, may_write, f_data, wpos,
                           pending, vals, sp, heap>>

\* A woken reader takes the mutex again and checks the read events again.
read_lock(t) ==
    /\ pc[t] = "r_lock"
    /\ read_check(t, cur[t].b, cur[t])
    /\ last' = Step(t)
    /\ UNCHANGED <<q, sender, receiver, refs, may_write, f_data, uio, wpos,
                   pending, vals, sp, heap>>

\* One pass of the copy loop: n bytes leave the front of the queue for the
\* start of the first segment; the segment pointer is not advanced.
read_copy(t) ==
    LET b == cur[t].b
        n == read_chunk(b, t)
        seg == uio[t].uio_iov[1] IN
    /\ pc[t] = "r_copy"
    /\ read_more(b, t)
    /\ uio' = [uio EXCEPT ![t].uio_iov[1] = Take(q[b], n) \o Drop(seg, n),
                          ![t].uio_resid = @ - n]
    /\ q' = [q EXCEPT ![b] = Drop(@, n)]
    /\ last' = [Step(t) EXCEPT !.held = with_lock(b)]
    /\ UNCHANGED <<sender, receiver, refs, mtx, may_read, may_write, f_data,
                   pc, cur, wpos, pending, vals, sp, heap>>

\* The loop is over: notify the sender, release the mutex.
read_done(t) ==
    LET b == cur[t].b IN
    /\ pc[t] = "r_copy"
    /\ ~read_more(b, t)
    /\ mtx' = [mtx EXCEPT ![b] = NULL]
    /\ pc' = [pc EXCEPT ![t] = "r_wake"]
    /\ last' = [Step(t) EXCEPT !.b = b, !.wakes = read_notify(b)]
    /\ UNCHANGED <<q, sender, receiver, refs, may_read, may_write, f_data,
                   uio, cur, wpos, pending, vals, sp, heap>>

\* may_write.wake_all() and return 0.
read_wake(t) ==
    LET b == cur[t].b
        ret == Returned(t) IN
    /\ pc[t] = "r_wake"
    /\ pc' = Woken(may_write[b], "w_lock", t, "idle")
    /\ may_write' = [may_write EXCEPT ![b] = {}]
    /\ last' = [Return(t, "read") EXCEPT !.cv = {<<b, "may_write">>}]
    /\ pending' = [pending EXCEPT ![b] =
                     IF @ # BROKEN /\ ret # BROKEN /\ IsPrefix(ret, @)
                     THEN Drop(@, Len(ret))
                     ELSE BROKEN]
    /\ uio' = [uio EXCEPT ![t] = NoUio]
    /\ cur' = [cur EXCEPT ![t] = NoCall]
    /\ UNCHANGED <<q, sender, receiver, refs, mtx, may_read, f_data, wpos,
                   vals, sp, heap>>

(***************************************************************************)
(* af_local_buffer::write, called through af_local_write on the send       *)
(* buffer of the caller's pair.                                            *)
(***************************************************************************)
\* A write loop that takes the whole segment, whatever space is left.
write_chunk_unbounded(b, t) == Len(uio[t].uio_iov[1])

\* n of one pass of the write loop.
write_chunk(b, t) == Min(max_buf - Len(q[b]), Len(uio[t].uio_iov[1]))

\* The loop condition of write.
write_more(b, t) ==
    uio[t].uio_resid # 0 /\ (write_events_unlocked(b) \cap POLLOUT) # {}

\* A write that forgets the poll_wake.
write_notify_none(b) == {}

\* The poll_wake write issues after its loop.
write_notify(b) ==
    IF read_events_unlocked(b) # {} /\ POLLIN # {}
    THEN {<<receiver[b], POLLIN>>}
    ELSE {}

\* The bytes of its buffer the caller takes one pass to have accepted: the n
\* bytes that follow those it counts as accepted so far.
Offered(t, n) ==
    IF Moved(t) + n <= Len(Flatten(uio[t].uio_iov))
    THEN SubSeq(Flatten(uio[t].uio_iov), Moved(t) + 1, Moved(t) + n)
    ELSE BROKEN

\* With the mutex, for the call c of t: wait while no write event is set;
\* fail with EPIPE on hangup; otherwise enter the copy loop.
write_check(t, b, c) ==
    LET r == write_events_unlocked(b) IN
    /\ mtx[b] = NULL
    /\ IF r = {}
       THEN /\ may_write' = [may_write EXCEPT ![b] = @ \cup {t}]
            /\ pc' = [pc EXCEPT ![t] = "w_wait"]
            /\ cur' = [cur EXCEPT ![t] = [c EXCEPT !.waited = TRUE]]
            /\ UNCHANGED mtx
       ELSE IF (r \cap POLLOUT) = {}
       THEN /\ pc' = [pc EXCEPT ![t] = "w_wake"]
            /\ cur' = [cur EXCEPT ![t] = [c EXCEPT !.err = EPIPE]]
            /\ UNCHANGED <<mtx, may_write>>
       ELSE /\ mtx' = [mtx EXCEPT ![b] = t]
            /\ pc' = [pc EXCEPT ![t] = "w_copy"]
            /\ cur' = [cur EXCEPT ![t] = [c EXCEPT !.q0 = Len(q[b])]]
            /\ UNCHANGED may_write

\* The call: a request of no bytes returns at once, before the mutex is
\* taken; any other takes the mutex and checks the write events.
af_local_write(t, lens) ==
    LET f == FileOf(t) IN
    /\ pc[t] = "idle"
    /\ Open(f)
    /\ LET b == f_data[f].send IN
       IF no_bytes(Sum(lens))
       THEN /\ last' = [Ev0 EXCEPT !.op = "write", !.t = t, !.b = b,
                                   !.hup = (receiver[b] = NULL)]
            /\ UNCHANGED <<chan, f_data, pc, uio, cur, wpos, pending, vals, sp, heap>>
       ELSE /\ write_check(t, b, [NoCall EXCEPT !.op = "write", !.f = f,
                                                !.b = b, !.orig = Sum(lens),
                                                !.hup = (receiver[b] = NULL)])
            /\ uio' = [uio EXCEPT ![t] = [uio_iov |-> WriteBuf(lens, wpos[f]),
                                          uio_resid |-> Sum(lens)]]
            /\ last' = Step(t)
            /\ UNCHANGED <<q, sender, receiver, refs, may_read, f_data, wpos,
                           pending, vals, sp, heap>>

\* A woken writer takes the mutex again and checks the write events again.
write_lock(t) ==
    /\ pc[t] = "w_lock"
    /\ write_check(t, cur[t].b, cur[t])
    /\ last' = Step(t)
    /\ UNCHANGED <<q, sender, receiver, refs, may_read, f_data, uio, wpos,
                   pending, vals, sp, heap>>

\* One pass of the copy loop: the first n bytes of the first segment are
\* appended to the queue; the segment pointer is not advanced.
write_copy(t) ==
    LET b == cur[t].b
        n == write_chunk(b, t)
        off == Offered(t, n) IN
    /\ pc[t] = "w_copy"
    /\ write_more(b, t)
    /\ q' = [q EXCEPT ![b] = @ \o SubSeq(uio[t].uio_iov[1], 1, n)]
    /\ uio' = [uio EXCEPT ![t].uio_resid = @ - n]
    /\ pending' = [pending EXCEPT ![b] =
                     IF @ # BROKEN /\ off # BROKEN THEN @ \o off ELSE BROKEN]
    /\ last' = [Step(t) EXCEPT !.held = with_lock(b)]
    /\ UNCHANGED <<sender, receiver, refs, mtx, may_read, may_write, f_data,
                   pc, cur, wpos, vals, sp, heap>>

\* The loop is over: notify the receiver, release the mutex.
write_done(t) ==
    LET b == cur[t].b IN
    /\ pc[t] = "w_copy"
    /\ ~write_more(b, t)
    /\ mtx' = [mtx EXCEPT ![b] = NULL]
    /\ pc' = [pc EXCEPT ![t] = "w_wake"]
    /\ last' = [Step(t) EXCEPT !.b = b, !.wakes = write_notify(b)]
    /\ UNCHANGED <<q, sender, receiver, refs, may_read, may_write, f_data,
                   uio, cur, wpos, pending, vals, sp, heap>>

\* may_read.wake_all() and return err.
write_wake(t) ==
    LET b == cur[t].b IN
    /\ pc[t] = "w_wake"
    /\ pc' = Woken(may_read[b], "r_lock", t, "idle")
    /\ may_read' = [may_read EXCEPT ![b] = {}]
    /\ last' = [Return(t, "write") EXCEPT !.cv = {<<b, "may_read">>}]
    /\ wpos' = [wpos EXCEPT ![cur[t].f] = (@ + Moved(t)) % vals]
    /\ uio' = [uio EXCEPT ![t] = NoUio]
    /\ cur' = [cur EXCEPT ![t] = NoCall]
    /\ UNCHANGED <<q, sender, receiver, refs, mtx, may_write, f_data,
                   pending, vals, sp, heap>>

(***************************************************************************)
(* af_local_close: delete the af_local.  Its destructor detaches the file  *)
(* as sender of its send buffer and as receiver of its receive buffer,     *)
(* then both buffer references are released.                               *)
(***************************************************************************)
\* A release that deletes the buffer while one reference is left.
intrusive_ptr_release_early(r, h, b) ==
    [refs |-> [r EXCEPT ![b] = @ - 1],
     heap |-> IF r[b] = 2 THEN [h EXCEPT ![b] = "freed"] ELSE h]

\* intrusive_ptr_release: the count goes down by one and the buffer is
\* deleted by the release that finds the count at 1.  Deleting a buffer that
\* is not live, or releasing one, corrupts the heap.
intrusive_ptr_release(r, h, b) ==
    [refs |-> [r EXCEPT ![b] = @ - 1],
     heap |-> IF h[b] # "live"
              THEN [h EXCEPT ![b] = "corrupt"]
              ELSE IF r[b] = 1 THEN [h EXCEPT ![b] = "freed"] ELSE h]

\* intrusive_ptr_add_ref.
intrusive_ptr_add_ref(r, b) == [r EXCEPT ![b] = @ + 1]

\* A detach_sender that notifies whatever the receiver is.
detach_sender_notify_always(b) == {<<receiver[b], POLLRDHUP>>}

\* The poll_wake detach_sender issues.
detach_sender_notify(b) ==
    IF sender[b] # NULL /\ receiver[b] # NULL
    THEN {<<receiver[b], POLLRDHUP>>}
    ELSE {}

\* The poll_wake detach_receiver issues.
detach_receiver_notify(b) ==
    IF receiver[b] # NULL /\ sender[b] # NULL
    THEN {<<sender[b], POLLHUP>>}
    ELSE {}

\* The threads may_read.wake_all() of detach_sender wakes.
detach_sender_wakes(b) == may_read[b]

\* A detach_receiver that wakes nobody.
detach_receiver_wakes_none(b) == {}

\* The threads may_write.wake_all() of detach_receiver wakes.
detach_receiver_wakes(b) == may_write[b]

\* detach_sender on buffer b by t, whose next step is at tpc: under the
\* mutex, a sender that is attached is cleared, the receiver is notified if
\* there is one, and the readers waiting on may_read are woken.
detach_sender(b, t, tpc) ==
    /\ mtx[b] = NULL
    /\ IF sender[b] # NULL
       THEN /\ sender' = [sender EXCEPT ![b] = NULL]
            /\ pc' = Woken(detach_sender_wakes(b), "r_lock", t, tpc)
            /\ may_read' = [may_read EXCEPT
                             ![b] = @ \ detach_sender_wakes(b)]
            /\ last' = [Step(t) EXCEPT !.op = "detach_sender", !.b = b,
                           !.wakes = detach_sender_notify(b),
                           !.cv = {<<b, "may_read">>},
                           !.held = lock_guard(b)]
       ELSE /\ pc' = Woken({}, "r_lock", t, tpc)
            /\ last' = [Step(t) EXCEPT !.op = "detach_sender", !.b = b,
                           !.held = lock_guard(b)]
            /\ UNCHANGED <<sender, may_read>>

\* detach_receiver on buffer b by t, whose next step is at tpc: under the
\* mutex, a receiver that is attached is cleared, the sender is notified if
\* there is one, and the writers waiting on may_write are woken.
detach_receiver(b, t, tpc) ==
    /\ mtx[b] = NULL
    /\ IF receiver[b] # NULL
       THEN /\ receiver' = [receiver EXCEPT ![b] = NULL]
            /\ pc' = Woken(detach_receiver_wakes(b), "w_lock", t, tpc)
            /\ may_write' = [may_write EXCEPT
                              ![b] = @ \ detach_receiver_wakes(b)]
            /\ last' = [Step(t) EXCEPT !.op = "detach_receiver", !.b = b,
                           !.wakes = detach_receiver_notify(b),
                           !.cv = {<<b, "may_write">>},
                           !.held = lock_guard(b)]
       ELSE /\ pc' = Woken({}, "w_lock", t, tpc)
            /\ last' = [Step(t) EXCEPT !.op = "detach_receiver", !.b = b,
                           !.held = lock_guard(b)]
            /\ UNCHANGED <<receiver, may_write>>

\* af_local_close deletes the af_local; its destructor starts with
\* send->detach_sender().
af_local_close(t) ==
    LET f == FileOf(t) IN
    /\ pc[t] = "idle"
    /\ Open(f)
    /\ ~InFlight(f)
    /\ detach_sender(f_data[f].send, t, "c_recv")
    /\ cur' = [cur EXCEPT ![t] =
                 [NoCall EXCEPT !.op = "close", !.f = f,
                                !.b = f_data[f].receive]]
    /\ UNCHANGED <<q, receiver, refs, mtx, may_write, f_data, uio, wpos,
                   pending, vals, sp, heap>>

\* receive->detach_receiver().
close_recv(t) ==
    /\ pc[t] = "c_recv"
    /\ detach_receiver(cur[t].b, t, "c_rel")
    /\ UNCHANGED <<q, sender, refs, mtx, may_read, f_data, uio, cur, wpos,
                   pending, vals, sp, heap>>

\* detach_sender called on a live buffer by a thread of its own, whatever
\* the state of the buffer.
call_detach_sender(b) ==
    /\ heap[b] = "live"
    /\ detach_sender(b, "main", "idle")
    /\ UNCHANGED <<q, receiver, refs, mtx, may_write, f_data, uio, cur, wpos,
                   pending, vals, sp, heap>>

\* detach_receiver called likewise.
call_detach_receiver(b) ==
    /\ heap[b] = "live"
    /\ detach_receiver(b, "main", "idle")
    /\ UNCHANGED <<q, sender, refs, mtx, may_read, f_data, uio, cur, wpos,
                   pending, vals, sp, heap>>

\* The members of the af_local are destroyed, receive first: its reference
\* is dropped.
close_release(t) ==
    LET b == cur[t].b
        r == intrusive_ptr_release(refs, heap, b) IN
    /\ pc[t] = "c_rel"
    /\ refs' = r.refs
    /\ heap' = r.heap
    /\ pc' = [pc EXCEPT ![t] = "c_ret"]
    /\ last' = [Step(t) EXCEPT !.b = b]
    /\ UNCHANGED <<q, sender, receiver, mtx, may_read, may_write, f_data,
                   uio, cur, wpos, pending, vals, sp>>

\* The reference to send is dropped, f_data is cleared, close returns 0.
close_return(t) ==
    LET f == cur[t].f
        b == f_data[f].send
        r == intrusive_ptr_release(refs, heap, b) IN
    /\ pc[t] = "c_ret"
    /\ refs' = r.refs
    /\ heap' = r.heap
    /\ f_data' = [f_data EXCEPT ![f] = NoPair]
    /\ pc' = [pc EXCEPT ![t] = "idle"]
    /\ cur' = [cur EXCEPT ![t] = NoCall]
    /\ last' = [Ev0 EXCEPT !.op = "close", !.t = t, !.b = b]
    /\ UNCHANGED <<q, sender, receiver, mtx, may_read, may_write, uio, wpos,
                   pending, vals, sp>>

(***************************************************************************)
(* socketpair_af_local.  The file layer (falloc_noinstall, finit, fileref, *)
(* fdesc) is outside this file: a fileref dropped for the last time closes *)
(* an initialised file through af_local_close, and an fdesc destroyed      *)
(* before release() removes its descriptor.                                *)
(***************************************************************************)
FailPoints == {"none", "f1", "f2", "fd1", "fd2"}

\* The state of the buffers the destructor of an af_local works on.
Bufs == [sender |-> sender, receiver |-> receiver, refs |-> refs,
         heap |-> heap]

\* ~af_local for the pair p, then the destruction of its members: the pair
\* detaches as sender of send and as receiver of receive, then drops its
\* reference to receive and its reference to send.
af_local_dtor(S, p) ==
    LET r1 == intrusive_ptr_release(S.refs, S.heap, p.receive)
        r2 == intrusive_ptr_release(r1.refs, r1.heap, p.send) IN
    [sender |-> [S.sender EXCEPT ![p.send] = NULL],
     receiver |-> [S.receiver EXCEPT ![p.receive] = NULL],
     refs |-> r2.refs,
     heap |-> r2.heap]

\* A unique_ptr that lets the af_local go without deleting it.
unique_ptr_leak(S, owned, p) == S

\* The destructor of unique_ptr<af_local>: deletes the af_local it owns.
unique_ptr_dtor(S, owned, p) == IF owned THEN af_local_dtor(S, p) ELSE S

\* The last fileref of a file handle goes: a file that finit initialised is
\* closed through its fileops (af_local_close deletes its af_local).
fileref_drop(S, state, p) == IF state = "init" THEN af_local_dtor(S, p) ELSE S

\* An fdesc destroyed before release(): its descriptor leaves the table.
fdesc_dtor(fds, f) == fds \ {f}

\* The asserts on the arguments pass.
args_ok(type, proto) == type = SOCK_STREAM /\ proto = 0

\* The asserts, then new af_local_buffer twice (refs 0) and new af_local
\* twice: each af_local takes a reference to its send and receive buffers.
\* A failed assert aborts the program.
socketpair_af_local(type, proto, fail) ==
    /\ sp.pc = "start"
    /\ IF args_ok(type, proto)
       THEN /\ sp' = [sp EXCEPT !.pc = "falloc1", !.type = type,
                                !.proto = proto, !.fail = fail,
                                !.s1 = TRUE, !.s2 = TRUE]
            /\ heap' = [b \in Buffers |-> "live"]
            /\ refs' = intrusive_ptr_add_ref(
                         intrusive_ptr_add_ref(
                           intrusive_ptr_add_ref(
                             intrusive_ptr_add_ref(
                               [b \in Buffers |-> 0], Pairs["A"].send),
                             Pairs["A"].receive),
                           Pairs["B"].send),
                         Pairs["B"].receive)
       ELSE /\ sp' = [sp EXCEPT !.pc = "abort", !.type = type,
                                !.proto = proto, !.fail = fail]
            /\ UNCHANGED <<heap, refs>>
    /\ last' = Step("main")
    /\ UNCHANGED <<q, sender, receiver, mtx, may_read, may_write, f_data,
                   pc, uio, cur, wpos, pending, vals>>

\* fileref f1{falloc_noinstall()}, which may throw.
sp_falloc1 ==
    /\ sp.pc = "falloc1"
    /\ sp' = IF sp.fail = "f1"
             THEN [sp EXCEPT !.pc = "unwind"]
             ELSE [sp EXCEPT !.pc = "falloc2", !.f1 = "alloc"]
    /\ last' = Step("main")
    /\ UNCHANGED <<chan, f_data, pc, uio, cur, wpos, pending, vals, heap>>

\* fileref f2{falloc_noinstall()}, which may throw.
sp_falloc2 ==
    /\ sp.pc = "falloc2"
    /\ sp' = IF sp.fail = "f2"
             THEN [sp EXCEPT !.pc = "unwind"]
             ELSE [sp EXCEPT !.pc = "finit1", !.f2 = "alloc"]
    /\ last' = Step("main")
    /\ UNCHANGED <<chan, f_data, pc, uio, cur, wpos, pending, vals, heap>>

\* The poll_wake calls of the destructor of the af_local p: the two buffers
\* of a pair are different objects, so its detach_receiver sees what its
\* detach_sender left.
dtor_notify(p) ==
    detach_sender_notify(p.send) \cup detach_receiver_notify(p.receive)

\* finit(f, ..., s.release(), &af_local_ops): the file takes the af_local
\* and af_local_init attaches the file as sender of send, then as receiver
\* of receive.  Neither attach takes the mutex; each asserts that the role
\* is free, and a failed assert aborts the program.
finit(f, next) ==
    LET p == Pairs[f] IN
    /\ f_data' = [f_data EXCEPT ![f] = p]
    /\ IF sender[p.send] # NULL
       THEN /\ sp' = [sp EXCEPT !.pc = "abort"]
            /\ UNCHANGED <<sender, receiver>>
       ELSE /\ sender' = [sender EXCEPT ![p.send] = f]
            /\ IF receiver[p.receive] # NULL
               THEN /\ sp' = [sp EXCEPT !.pc = "abort",
                                 !.attached = @ \cup {<<p.send, "sender">>}]
                    /\ UNCHANGED receiver
               ELSE /\ receiver' = [receiver EXCEPT ![p.receive] = f]
                    /\ sp' = [sp EXCEPT
                                !.pc = next,
                                !.s1 = IF f = "A" THEN FALSE ELSE @,
                                !.s2 = IF f = "B" THEN FALSE ELSE @,
                                !.f1 = IF f = "A" THEN "init" ELSE @,
                                !.f2 = IF f = "B" THEN "init" ELSE @,
                                !.attached = @ \cup {<<p.send, "sender">>,
                                                     <<p.receive, "receiver">>}]
    /\ last' = [Step("main") EXCEPT !.op = "attach", !.held = attach_lock(f)]
    /\ UNCHANGED <<q, refs, mtx, may_read, may_write, pc, uio, cur, wpos,
                   pending, vals, heap>>

sp_finit1 == sp.pc = "finit1" /\ finit("A", "finit2")

sp_finit2 == sp.pc = "finit2" /\ finit("B", "fdesc1")

\* fdesc fd1(f1), which may throw.
sp_fdesc1 ==
    /\ sp.pc = "fdesc1"
    /\ sp' = IF sp.fail = "fd1"
             THEN [sp EXCEPT !.pc = "unwind"]
             ELSE [sp EXCEPT !.pc = "fdesc2", !.fd = @ \cup {"A"}]
    /\ last' = Step("main")
    /\ UNCHANGED <<chan, f_data, pc, uio, cur, wpos, pending, vals, heap>>

\* fdesc fd2(f2), which may throw.
sp_fdesc2 ==
    /\ sp.pc = "fdesc2"
    /\ sp' = IF sp.fail = "fd2"
             THEN [sp EXCEPT !.pc = "unwind"]
             ELSE [sp EXCEPT !.pc = "ret", !.fd = @ \cup {"B"}]
    /\ last' = Step("main")
    /\ UNCHANGED <<chan, f_data, pc, uio, cur, wpos, pending, vals, heap>>

\* sv[0] = fd1.release(); sv[1] = fd2.release(); return 0.
sp_return ==
    /\ sp.pc = "ret"
    /\ sp' = [sp EXCEPT !.pc = "done", !.sv = <<"A", "B">>, !.ret = 0]
    /\ last' = Step("main")
    /\ UNCHANGED <<chan, f_data, pc, uio, cur, wpos, pending, vals, heap>>

\* The exception leaves the try block: fd1, if it was made, is destroyed.
sp_unwind ==
    /\ sp.pc = "unwind"
    /\ sp' = [sp EXCEPT !.pc = "drop2", !.fd = fdesc_dtor(@, "A")]
    /\ last' = Step("main")
    /\ UNCHANGED <<chan, f_data, pc, uio, cur, wpos, pending, vals, heap>>

\* The fileref of file f is destroyed.
drop(f, state, next) ==
    LET S == fileref_drop(Bufs, state, Pairs[f]) IN
    /\ sender' = S.sender
    /\ receiver' = S.receiver
    /\ refs' = S.refs
    /\ heap' = S.heap
    /\ f_data' = [f_data EXCEPT ![f] = NoPair]
    /\ sp' = [sp EXCEPT !.pc = next,
                        !.f1 = IF f = "A" /\ @ # "none" THEN "dropped" ELSE @,
                        !.f2 = IF f = "B" /\ @ # "none" THEN "dropped" ELSE @]
    /\ last' = [Step("main") EXCEPT
                  !.op = "drop",
                  !.wakes = IF state = "init" THEN dtor_notify(Pairs[f])
                            ELSE {},
                  !.held = IF state = "init"
                           THEN lock_guard(Pairs[f].send) \cup
                                lock_guard(Pairs[f].receive)
                           ELSE {}]
    /\ UNCHANGED <<q, mtx, may_read, may_write, pc, uio, cur, wpos, pending,
                   vals>>

sp_drop2 == sp.pc = "drop2" /\ drop("B", sp.f2, "drop1")

sp_drop1 == sp.pc = "drop1" /\ drop("A", sp.f1, "catch")

\* catch (int error) { return libc_error(error); }, then s2 and s1 are
\* destroyed with whatever they still own.
sp_catch ==
    LET S2 == unique_ptr_dtor(Bufs, sp.s2, Pairs["B"])
        S1 == unique_ptr_dtor(S2, sp.s1, Pairs["A"]) IN
    /\ sp.pc = "catch"
    /\ sender' = S1.sender
    /\ receiver' = S1.receiver
    /\ refs' = S1.refs
    /\ heap' = S1.heap
    /\ sp' = [sp EXCEPT !.pc = "done", !.ret = JUNK, !.s1 = FALSE,
                        !.s2 = FALSE]
    /\ last' = [Step("main") EXCEPT
                  !.op = "unique_ptr",
                  !.wakes = (IF sp.s2 THEN dtor_notify(Pairs["B"]) ELSE {})
                       \cup (IF sp.s1 THEN dtor_notify(Pairs["A"]) ELSE {}),
                  !.held = IF sp.s1 \/ sp.s2
                           THEN lock_guard(1) \cup lock_guard(2) ELSE {}]
    /\ UNCHANGED <<q, mtx, may_read, may_write, f_data, pc, uio, cur, wpos,
                   pending, vals>>

\* The steps of socketpair_af_local after its first.
CreateProgress ==
    \/ sp_falloc1
    \/ sp_falloc2
    \/ sp_finit1
    \/ sp_finit2
    \/ sp_fdesc1
    \/ sp_fdesc2
    \/ sp_return
    \/ sp_unwind
    \/ sp_drop2
    \/ sp_drop1
    \/ sp_catch

(***************************************************************************)
(* af_local_poll: read_events() of the receive buffer and write_events()   *)
(* of the send buffer, each under that buffer's mutex.                     *)
(***************************************************************************)
PollReturn(t, f, events, revents) ==
    [Ev0 EXCEPT !.op = "poll", !.t = t, !.events = events,
                !.revents = revents]

af_local_poll(t, events) ==
    LET f == FileOf(t) IN
    /\ pc[t] = "idle"
    /\ Open(f)
    /\ IF (events \cap POLLIN) # {}
       THEN /\ mtx[f_data[f].receive] = NULL
            /\ IF (events \cap POLLOUT) # {}
               THEN /\ pc' = [pc EXCEPT ![t] = "p_out"]
                    /\ cur' = [cur EXCEPT ![t] =
                                 [NoCall EXCEPT !.op = "poll", !.f = f,
                                    !.b = f_data[f].send, !.events = events,
                                    !.revents =
                                      read_events_unlocked(f_data[f].receive)]]
                    /\ last' = Step(t)
               ELSE /\ last' = PollReturn(t, f, events,
                                   read_events_unlocked(f_data[f].receive))
                    /\ UNCHANGED <<pc, cur>>
       ELSE /\ (events \cap POLLOUT) # {} => mtx[f_data[f].send] = NULL
            /\ last' = PollReturn(t, f, events,
                          IF (events \cap POLLOUT) # {}
                          THEN write_events_unlocked(f_data[f].send)
                          ELSE {})
            /\ UNCHANGED <<pc, cur>>
    /\ UNCHANGED <<chan, f_data, uio, wpos, pending, vals, sp, heap>>

poll_out(t) ==
    /\ pc[t] = "p_out"
    /\ mtx[cur[t].b] = NULL
    /\ last' = PollReturn(t, cur[t].f, cur[t].events,
                  cur[t].revents \cup write_events_unlocked(cur[t].b))
    /\ pc' = [pc EXCEPT ![t] = "idle"]
    /\ cur' = [cur EXCEPT ![t] = NoCall]
    /\ UNCHANGED <<chan, f_data, uio, wpos, pending, vals, sp, heap>>

(***************************************************************************)
(* The program: each thread calls the operations of its file.              *)
(***************************************************************************)
PollMasks == {POLLIN, POLLOUT, POLLIN \cup POLLOUT}

\* The steps that continue a call in flight.
Progress(t) ==
    \/ read_lock(t)
    \/ read_copy(t)
    \/ read_done(t)
    \/ read_wake(t)
    \/ write_lock(t)
    \/ write_copy(t)
    \/ write_done(t)
    \/ write_wake(t)
    \/ close_recv(t)
    \/ close_release(t)
    \/ close_return(t)
    \/ poll_out(t)

\* Traffic in one direction: t1 writes on A (into buffer 1), t2 reads on B
\* (from buffer 1); both poll and close their file.
Next ==
    \/ \E lens \in Layouts : af_local_write("t1", lens)
    \/ \E lens \in Layouts : af_local_read("t2", lens)
    \/ \E t \in Threads :
        \/ \E events \in PollMasks : af_local_poll(t, events)
        \/ af_local_close(t)
        \/ Progress(t)

Spec == Init /\ [][Next]_vars

\* Every runnable thread is scheduled, and a thread that asks for a mutex
\* that keeps being released gets it.
FifoSpec == FifoInit /\ [][Next]_vars

FairSpec == Spec /\ \A t \in Threads : SF_vars(Progress(t))

\* The steps of a thread inside a read, a write or a close.
PairProgress(t) ==
    \/ read_lock(t)
    \/ read_copy(t)
    \/ read_done(t)
    \/ read_wake(t)
    \/ write_lock(t)
    \/ write_copy(t)
    \/ write_done(t)
    \/ write_wake(t)
    \/ close_recv(t)
    \/ close_release(t)
    \/ close_return(t)

\* Both directions of the pair: endpoint A (thread t1) writes and then
\* closes, endpoint B (thread t2) reads and writes and stays open.
PairNext ==
    \/ \E lens \in Layouts : af_local_write("t1", lens)
    \/ \E lens \in Layouts : af_local_read("t2", lens)
    \/ \E lens \in Layouts : af_local_write("t2", lens)
    \/ af_local_close("t1")
    \/ \E t \in Threads : PairProgress(t)

PairSpec == Init /\ [][PairNext]_vars

\* The steps of a thread inside a read or a write.
DetachProgress(t) ==
    \/ read_lock(t)
    \/ read_copy(t)
    \/ read_done(t)
    \/ read_wake(t)
    \/ write_lock(t)
    \/ write_copy(t)
    \/ write_done(t)
    \/ write_wake(t)

\* The requests of the threads that run beside the detaches: one byte, or
\* as many bytes as the buffer holds.
DetachLayouts == {<<1>>, <<max_buf>>}

\* The two detach functions exercised by themselves: while t1 writes and t2
\* reads, detach_sender and detach_receiver are called on the buffers at any
\* time and any number of times.
DetachNext ==
    \/ \E b \in Buffers : call_detach_sender(b)
    \/ \E b \in Buffers : call_detach_receiver(b)
    \/ \E lens \in DetachLayouts : af_local_write("t1", lens)
    \/ \E lens \in DetachLayouts : af_local_read("t2", lens)
    \/ \E t \in Threads : DetachProgress(t)

DetachSpec == Init /\ [][DetachNext]_vars

\* Before socketpair_af_local is called: no buffer, no pair, no file.
CreateInit ==
    /\ q = [b \in Buffers |-> <<>>]
    /\ sender = [b \in Buffers |-> NULL]
    /\ receiver = [b \in Buffers |-> NULL]
    /\ refs = [b \in Buffers |-> 0]
    /\ mtx = [b \in Buffers |-> NULL]
    /\ may_read = [b \in Buffers |-> {}]
    /\ may_write = [b \in Buffers |-> {}]
    /\ f_data = [f \in Files |-> NoPair]
    /\ pc = [t \in Threads |-> "idle"]
    /\ uio = [t \in Threads |-> NoUio]
    /\ cur = [t \in Threads |-> NoCall]
    /\ wpos = [f \in Files |-> 0]
    /\ pending = [b \in Buffers |-> <<>>]
    /\ last = Ev0
    /\ sp = NoCreate
    /\ heap = [b \in Buffers |-> "unalloc"]
    /\ vals = 1

\* The pair is made by a call of socketpair_af_local with any arguments, in
\* which any one of the steps that can fail may fail; the threads then use
\* the two files.
CreateNext ==
    \/ \E type \in {SOCK_STREAM, SOCK_DGRAM}, proto \in {0, 1},
          fail \in FailPoints : socketpair_af_local(type, proto, fail)
    \/ CreateProgress
    \/ Next

CreateSpec == CreateInit /\ [][CreateNext]_vars

(***************************************************************************)
(* Properties.                                                             *)
(***************************************************************************)

\* C1: the queue of a buffer never holds more than max_buf bytes, whatever
\* writes, reads, detaches and closes have run and whatever the segment
\* layout of the callers' buffers; a write that asks for more than the free
\* space stops when the queue is full.
CapacityInvariant == \A b \in Buffers : Len(q[b]) <= max_buf

\* A write has stopped short: the queue is full and bytes are left over.
ShortWriteSeen ==
    \E t \in Threads :
        /\ pc[t] = "w_wake"
        /\ cur[t].err = 0
        /\ uio[t].uio_resid > 0
        /\ Len(q[cur[t].b]) = max_buf

\* The readers that have taken bytes out of the queue of b and not returned.
Reading(b) == {t \in Threads : pc[t] \in {"r_copy", "r_wake"} /\ cur[t].b = b}

\* The bytes a read in progress on b has so far put in its caller's buffer.
InFlightRead(b) ==
    IF Reading(b) = {} THEN <<>> ELSE Returned(CHOOSE t \in Reading(b) : TRUE)

\* C2: with one writer and one reader on a buffer, the bytes returned by
\* reads so far followed by the queue are the bytes accepted by writes so
\* far, in order.  pending[b] holds the accepted bytes less the prefix that
\* reads have returned, so the claim is that what is left of it is the bytes
\* of the read in progress followed by the queue.
FifoExactlyOnce ==
    \A b \in Buffers :
        /\ pending[b] # BROKEN
        /\ pending[b] = InFlightRead(b) \o q[b]

\* C3 as stated: once the receiver of a buffer is detached, every write call
\* made on it, of any requested length, zero included, fails with EPIPE and
\* accepts no byte.
WriteAfterDetachFails ==
    (last.op = "write" /\ last.hup) => (last.err = EPIPE /\ last.n = 0)

\* C3, amended: once the receiver of a buffer is detached, every write call
\* of a nonzero length made on it fails with EPIPE, and a write call of
\* length zero returns 0 without error; neither accepts a byte, and neither
\* reaches the copy loop, so the queue is left as it was.
NonzeroWriteAfterDetachFails ==
    /\ (last.op = "write" /\ last.hup /\ last.req # 0)
            => (last.err = EPIPE /\ last.n = 0)
    /\ (last.op = "write" /\ last.hup /\ last.req = 0)
            => (last.err = 0 /\ last.n = 0)
    /\ \A t \in Threads :
            (cur[t].op = "write" /\ cur[t].hup)
                => (pc[t] \in {"w_wake"} /\ cur[t].err = EPIPE /\ Moved(t) = 0)
    /\ \A t \in Threads :
            pc[t] = "w_copy" => receiver[cur[t].b] # NULL

\* A write of some bytes, made after the receiver was detached, has failed.
WriteAfterDetachSeen ==
    last.op = "write" /\ last.hup /\ last.req # 0 /\ last.err = EPIPE

\* C4: a writer blocked in write when detach_receiver runs is woken by it
\* (no writer stays on may_write once the receiver is gone), takes the mutex,
\* then returns EPIPE with no byte accepted; no writer is in the copy loop of
\* a buffer whose receiver is detached.
BlockedWriterFailsOnDetach ==
    /\ [](\A t \in Threads : pc[t] = "w_wait" => receiver[cur[t].b] # NULL)
    /\ [](\A t \in Threads : pc[t] = "w_copy" => receiver[cur[t].b] # NULL)
    /\ \A t \in Threads :
          (pc[t] = "w_lock" /\ receiver[cur[t].b] = NULL)
              ~> (last.op = "write" /\ last.t = t /\ last.waited
                    /\ last.err = EPIPE /\ last.n = 0)

\* A writer that had waited has returned EPIPE.
BlockedWriterFailed ==
    last.op = "write" /\ last.waited /\ last.err = EPIPE /\ last.n = 0

\* What a read about to return hands back is the front of the bytes accepted
\* and not yet returned, and it hands back nothing only if nothing is queued.
ReadsInOrder(t) ==
    LET b == cur[t].b IN
    (pc[t] = "r_wake" /\ pending[b] # BROKEN)
        => /\ Returned(t) # BROKEN
           /\ IsPrefix(Returned(t), pending[b])
           /\ Moved(t) = 0 => q[b] = <<>>

\* C5: after detach_sender, a read of some bytes by the receiver returns the
\* bytes still buffered, in order, and returns end of stream (no byte, no
\* error) once the queue is empty; no reader is on may_read while the sender
\* is detached, and a reader that was blocked on the empty queue when the
\* sender detached is woken and returns end of stream.
HalfCloseRead ==
    /\ [](\A t \in Threads : pc[t] = "r_wait" => sender[cur[t].b] # NULL)
    /\ [](\A b \in Buffers : sender[b] = NULL => may_read[b] = {})
    /\ [](\A t \in Threads :
            (cur[t].op = "read" /\ cur[t].hup) => ReadsInOrder(t))
    /\ []((last.op = "read" /\ last.hup /\ last.req # 0)
            => (last.err = 0 /\ ~last.waited))
    /\ \A t \in Threads :
          (pc[t] = "r_lock" /\ sender[cur[t].b] = NULL /\ q[cur[t].b] = <<>>)
              ~> (last.op = "read" /\ last.t = t /\ last.waited
                    /\ last.err = 0 /\ last.n = 0)

\* A writer waiting for space, or woken and about to take the mutex, while
\* the receiver is attached and the queue is not full.
WriterReady(t) ==
    /\ pc[t] \in {"w_wait", "w_lock"}
    /\ receiver[cur[t].b] # NULL
    /\ Len(q[cur[t].b]) < max_buf

\* The writer has appended a byte, or the receiver has detached.
WriterResumed(t) ==
    \/ pc[t] \in {"w_copy", "w_wake"} /\ Moved(t) > 0
    \/ pc[t] \in {"w_wait", "w_lock", "w_copy", "w_wake"}
            /\ receiver[cur[t].b] = NULL

\* A reader waiting for data, or woken and about to take the mutex, while
\* the queue is not empty.
ReaderReady(t) ==
    /\ pc[t] \in {"r_wait", "r_lock"}
    /\ q[cur[t].b] # <<>>

\* The reader has taken a byte.
ReaderResumed(t) == pc[t] \in {"r_copy", "r_wake"} /\ Moved(t) > 0

\* C6: under fair scheduling a writer blocked on a full queue appends at least
\* one byte once the queue has space (unless the receiver detaches), and a
\* reader blocked on an empty queue takes at least one byte once the queue
\* holds data; no waiter stays blocked while its readiness predicate holds.
BackpressureWakeup ==
    /\ \A t \in Threads : WriterReady(t) ~> WriterResumed(t)
    /\ \A t \in Threads : ReaderReady(t) ~> ReaderResumed(t)

\* C7: a write of L > 0 bytes that found the channel write-ready with q0
\* bytes queued has accepted exactly min(max_buf - q0, L) bytes when it
\* returns, leaving the rest of the L bytes unaccepted, and it has not waited
\* after it started to copy.
ShortWriteExact ==
    \A t \in Threads :
        /\ (pc[t] = "w_wake" /\ cur[t].err = 0)
              => /\ Moved(t) = Min(max_buf - cur[t].q0, cur[t].orig)
                 /\ uio[t].uio_resid =
                        cur[t].orig - Min(max_buf - cur[t].q0, cur[t].orig)
        /\ pc[t] \in {"w_wait", "w_lock"} => Moved(t) = 0

\* Endpoint A has been closed, endpoint B is open.
AClosed == f_data["A"] = NoPair /\ Open("B")

\* C8: once endpoint A is closed and B is open, the reads of B return the
\* bytes A had written, in order, and then end of stream; the writes of some
\* bytes B makes fail with EPIPE and accept nothing; and no read or write of
\* B is blocked on a condition variable.
PeerClosed ==
    AClosed =>
        /\ pc["t2"] \notin {"r_wait", "w_wait"}
        /\ (cur["t2"].op = "read" /\ cur["t2"].hup) => ReadsInOrder("t2")
        /\ (last.op = "read" /\ last.t = "t2" /\ last.hup) => last.err = 0
        /\ (last.op = "write" /\ last.t = "t2" /\ last.hup /\ last.req # 0)
                => (last.err = EPIPE /\ last.n = 0)
        /\ pc["t2"] # "w_copy"

\* C9: a read or write of requested length 0 returns 0 at once in every
\* channel state: the step that makes the call is the step that returns, it
\* changes neither the queues, the sender and receiver references, the
\* mutexes nor the wait sets, it issues no poll_wake and no wake_all, and no
\* call in flight (holding or awaiting a mutex, or waiting) has length 0.
ZeroLengthNoOp ==
    /\ [](\A t \in Threads :
            cur[t].op \in {"read", "write"} => cur[t].orig > 0)
    /\ [][(last'.op \in {"read", "write"} /\ last'.req = 0)
            => /\ pc[last'.t] = "idle"
               /\ UNCHANGED <<chan, f_data, pc, uio, cur, wpos, pending>>
               /\ last'.n = 0
               /\ last'.err = 0
               /\ ~last'.waited
               /\ last'.wakes = {}
               /\ last'.cv = {}]_vars

\* A write of length 0 has returned while the queue of its buffer is full and
\* another thread holds the mutex of that buffer.
ZeroLengthSeen ==
    /\ last.op = "write"
    /\ last.req = 0
    /\ Len(q[last.b]) = max_buf
    /\ mtx[last.b] \notin {NULL, last.t}

\* C10: in every state read_events has POLLIN exactly when the queue is not
\* empty and POLLRDHUP exactly when the sender is detached; write_events has
\* POLLOUT exactly when the receiver is attached and the queue is below
\* max_buf, and POLLHUP exactly when the receiver is detached, never both;
\* and a poll for one of the two masks returns exactly these bits.
ReadinessExact ==
    /\ \A b \in Buffers :
        LET r == read_events_unlocked(b)
            w == write_events_unlocked(b) IN
        /\ r \subseteq (POLLIN \cup POLLRDHUP)
        /\ (POLLIN \subseteq r) <=> (q[b] # <<>>)
        /\ (POLLRDHUP \subseteq r) <=> (sender[b] = NULL)
        /\ w \subseteq (POLLOUT \cup POLLHUP)
        /\ (POLLOUT \subseteq w) <=>
                (receiver[b] # NULL /\ Len(q[b]) < max_buf)
        /\ (POLLHUP \subseteq w) <=> (receiver[b] = NULL)
        /\ ~((POLLOUT \cup POLLHUP) \subseteq w)
    /\ (last.op = "poll" /\ last.events = POLLIN) =>
        LET b == f_data[FileOf(last.t)].receive IN
        /\ last.revents \subseteq (POLLIN \cup POLLRDHUP)
        /\ (POLLIN \subseteq last.revents) <=> (q[b] # <<>>)
        /\ (POLLRDHUP \subseteq last.revents) <=> (sender[b] = NULL)
    /\ (last.op = "poll" /\ last.events = POLLOUT) =>
        LET b == f_data[FileOf(last.t)].send IN
        /\ last.revents \subseteq (POLLOUT \cup POLLHUP)
        /\ (POLLOUT \subseteq last.revents) <=>
                (receiver[b] # NULL /\ Len(q[b]) < max_buf)
        /\ (POLLHUP \subseteq last.revents) <=> (receiver[b] = NULL)

\* A poll for POLLIN has returned POLLIN and POLLRDHUP together: data is still
\* queued after the sender detached.
DrainPollSeen ==
    last.op = "poll" /\ last.events = POLLIN
        /\ last.revents = POLLIN \cup POLLRDHUP

\* The af_local of file f exists: a unique_ptr of socketpair_af_local owns
\* it, or the file does.
PairAlive(f) ==
    \/ f = "A" /\ sp.s1
    \/ f = "B" /\ sp.s2
    \/ f_data[f] # NoPair

\* The thread closing f has dropped the reference to the receive buffer.
ReceiveDropped(f) == \E t \in Threads : pc[t] = "c_ret" /\ cur[t].f = f

\* The pairs that hold a reference to buffer b.
Holders(b) ==
    {f \in Files : /\ PairAlive(f)
                   /\ \/ Pairs[f].send = b
                      \/ Pairs[f].receive = b /\ ~ReceiveDropped(f)}

\* The buffers the call thread t is in will still work on.
Touches(t) ==
    IF pc[t] = "idle" THEN {}
    ELSE IF pc[t] = "c_ret" THEN {f_data[cur[t].f].send}
    ELSE IF pc[t] \in {"c_recv", "c_rel"}
    THEN {cur[t].b, f_data[cur[t].f].send}
    ELSE {cur[t].b}

\* C11: every buffer is referenced by exactly the pairs that hold it (two
\* while both pairs exist); it is deleted once, by the release that takes the
\* count to zero, and never released or deleted again; every call in flight,
\* every mutex held, every waiter and every open file is on a live buffer;
\* and once both files are closed both buffers are deleted.
ChannelLifetime ==
    /\ \A b \in Buffers :
        /\ heap[b] # "corrupt"
        /\ heap[b] # "unalloc" => refs[b] = Cardinality(Holders(b))
        /\ heap[b] = "freed" <=> (sp.pc \notin {"start", "abort"}
                                    /\ refs[b] = 0)
        /\ (mtx[b] # NULL \/ may_read[b] # {} \/ may_write[b] # {})
                => heap[b] = "live"
    /\ \A t \in Threads : \A b \in Touches(t) : heap[b] = "live"
    /\ \A f \in Files :
            f_data[f] # NoPair
                => (heap[Pairs[f].send] = "live"
                        /\ (heap[Pairs[f].receive] = "live"
                                \/ ReceiveDropped(f)))
    /\ (sp.pc = "done" /\ \A f \in Files : f_data[f] = NoPair)
            => \A b \in Buffers : heap[b] = "freed"

\* Both files of a pair that was made have been closed, and both buffers are
\* deleted.
BothClosed ==
    /\ sp.pc = "done"
    /\ sp.ret = 0
    /\ last.op = "close"
    /\ \A b \in Buffers : heap[b] = "freed"

\* Nothing has been allocated and sv has not been written.
NothingMade ==
    /\ \A b \in Buffers : heap[b] = "unalloc"
    /\ ~sp.s1 /\ ~sp.s2
    /\ sp.f1 = "none" /\ sp.f2 = "none"
    /\ sp.fd = {}
    /\ sp.sv = <<>>

\* C12: a call of socketpair_af_local with a type other than SOCK_STREAM or a
\* protocol other than 0 returns EINVAL, with no buffer, pair or file handle
\* allocated and sv not written.
InvalidArgsRejected ==
    (sp.pc # "start" /\ ~args_ok(sp.type, sp.proto))
        => (sp.pc = "done" /\ sp.ret = EINVAL /\ NothingMade)

\* C13: when socketpair_af_local returns after falloc_noinstall or fdesc
\* threw (first handle, second handle, first descriptor, second descriptor),
\* it returns an error, both pairs are destroyed, both buffers have count 0
\* and are deleted, each once, no role is left attached, no descriptor is
\* installed and sv has not been written.
CleanUnwind ==
    /\ \A b \in Buffers : sp.fail # "none" => heap[b] # "corrupt"
    /\ (sp.pc = "done" /\ sp.fail # "none")
        => /\ sp.ret # 0
           /\ \A b \in Buffers :
                /\ heap[b] = "freed"
                /\ refs[b] = 0
                /\ sender[b] = NULL
                /\ receiver[b] = NULL
           /\ \A f \in Files : ~PairAlive(f)
           /\ sp.f1 \in {"none", "dropped"}
           /\ sp.f2 \in {"none", "dropped"}
           /\ sp.fd = {}
           /\ sp.sv = <<>>

\* The second fdesc threw, after the first descriptor was installed, and the
\* call has returned.
SecondDescriptorFailed ==
    sp.pc = "done" /\ sp.fail = "fd2" /\ sp.ret # 0 /\ sp.f1 = "dropped"

\* The step changes the queue, the sender or the receiver of buffer b.
Mutates(b) ==
    q'[b] # q[b] \/ sender'[b] # sender[b] \/ receiver'[b] # receiver[b]

\* The thread of the step holds the mutex of b while the step runs: it held
\* it before, or the mutex was free and the step takes it.
HoldsLock(b) == b \in last'.held /\ mtx[b] \in {NULL, last'.t}

\* C14 as stated: every step of read, write, detach_sender, detach_receiver,
\* attach_sender or attach_receiver that changes the queue, the sender or the
\* receiver of a buffer is made by a thread holding the mutex of that buffer.
LockedMutation ==
    [][\A b \in Buffers : Mutates(b) => HoldsLock(b)]_vars

\* C14, amended: every change of the queue, the sender or the receiver of a
\* buffer made by read, write, detach_sender or detach_receiver is made by a
\* thread holding the mutex of that buffer; attach_sender and attach_receiver
\* change the sender and the receiver without the mutex, inside
\* socketpair_af_local only, before it returns, while no thread is in a call
\* on either file and nobody holds the mutex.
LockedMutationButAttach ==
    [][\A b \in Buffers :
        Mutates(b) =>
            \/ last'.op # "attach" /\ HoldsLock(b)
            \/ /\ last'.op = "attach"
               /\ last'.held = {}
               /\ sp.pc \in {"finit1", "finit2"}
               /\ q'[b] = q[b]
               /\ mtx[b] = NULL
               /\ \A t \in Threads : pc[t] = "idle"]_vars

\* A detach has cleared the sender of a buffer with its mutex held, while
\* bytes are queued in it.
LockedDetachSeen ==
    \E b \in Buffers :
        /\ last.b = b
        /\ last.held = {b}
        /\ last.cv = {<<b, "may_read">>}
        /\ sender[b] = NULL
        /\ q[b] # <<>>

\* C15: a role of a buffer is attached only when it is free and was never
\* attached before, so at most once and never again after its detach; the
\* asserts of attach_sender and attach_receiver never fail; when
\* socketpair_af_local is about to return 0 buffer 1 has sender A and
\* receiver B and buffer 2 has sender B and receiver A, and later each role
\* holds that file or nothing; the send and receive of a pair are different
\* buffers.
RoleLifecycle ==
    /\ [](sp.pc = "abort" => ~args_ok(sp.type, sp.proto))
    /\ [](sp.pc = "ret" => /\ sender = (1 :> "A" @@ 2 :> "B")
                           /\ receiver = (1 :> "B" @@ 2 :> "A"))
    /\ [](/\ sender[1] \in {NULL, "A"} /\ receiver[1] \in {NULL, "B"}
          /\ sender[2] \in {NULL, "B"} /\ receiver[2] \in {NULL, "A"})
    /\ [](\A f \in Files : /\ Pairs[f].send # Pairs[f].receive
                           /\ f_data[f] \in {NoPair, Pairs[f]})
    /\ [][\A b \in Buffers :
            /\ (sender'[b] # sender[b] /\ sender'[b] # NULL)
                  => (sender[b] = NULL /\ <<b, "sender">> \notin sp.attached
                        /\ <<b, "sender">> \in sp'.attached)
            /\ (receiver'[b] # receiver[b] /\ receiver'[b] # NULL)
                  => (receiver[b] = NULL
                        /\ <<b, "receiver">> \notin sp.attached
                        /\ <<b, "receiver">> \in sp'.attached)]_vars

\* Every role was attached, and every role has been detached since.
AllDetached ==
    /\ sp.pc = "done"
    /\ sp.ret = 0
    /\ sp.attached = AllRoles
    /\ \A b \in Buffers : sender[b] = NULL /\ receiver[b] = NULL

\* C16: a detach_sender on a buffer whose sender is attached clears it,
\* notifies the receiver with POLLRDHUP exactly if a receiver is attached,
\* and wakes every reader waiting on may_read, changing nothing else; a
\* detach_sender on a buffer whose sender is already detached changes
\* nothing, notifies nobody and wakes nobody.  Likewise detach_receiver with
\* POLLHUP, the sender and may_write.
DetachIdempotent ==
    [][\A b \in Buffers :
        /\ (last'.op = "detach_sender" /\ last'.b = b) =>
             IF sender[b] # NULL
             THEN /\ sender'[b] = NULL
                  /\ last'.wakes = IF receiver[b] # NULL
                                   THEN {<<receiver[b], POLLRDHUP>>} ELSE {}
                  /\ last'.cv = {<<b, "may_read">>}
                  /\ may_read'[b] = {}
                  /\ \A u \in may_read[b] : pc'[u] = "r_lock"
                  /\ UNCHANGED <<q, receiver, refs, mtx, may_write>>
             ELSE /\ UNCHANGED chan
                  /\ \A u \in Threads \ {last'.t} : pc'[u] = pc[u]
                  /\ last'.wakes = {}
                  /\ last'.cv = {}
        /\ (last'.op = "detach_receiver" /\ last'.b = b) =>
             IF receiver[b] # NULL
             THEN /\ receiver'[b] = NULL
                  /\ last'.wakes = IF sender[b] # NULL
                                   THEN {<<sender[b], POLLHUP>>} ELSE {}
                  /\ last'.cv = {<<b, "may_write">>}
                  /\ may_write'[b] = {}
                  /\ \A u \in may_write[b] : pc'[u] = "w_lock"
                  /\ UNCHANGED <<q, sender, refs, mtx, may_read>>
             ELSE /\ UNCHANGED chan
                  /\ \A u \in Threads \ {last'.t} : pc'[u] = pc[u]
                  /\ last'.wakes = {}
                  /\ last'.cv = {}]_vars

\* A detach_sender has run on a buffer whose sender was already detached.
SecondDetachSeen ==
    /\ last.op = "detach_sender"
    /\ last.t = "main"
    /\ last.cv = {}
    /\ last.wakes = {}
    /\ sender[last.b] = NULL

\* The step is the one in which the write of t leaves its copy loop.
LeavesWriteLoop(t) == pc[t] = "w_copy" /\ pc'[t] = "w_wake"

\* C17 as stated: a write notifies the receiver with POLLIN when it leaves
\* its copy loop exactly if it found the queue empty and leaves it non-empty;
\* a write onto a queue that already held bytes notifies nobody.
WriteNotifiesOnEdge ==
    [][\A t \in Threads :
        LeavesWriteLoop(t) =>
            last'.wakes = IF cur[t].q0 = 0 /\ q[cur[t].b] # <<>>
                          THEN {<<receiver[cur[t].b], POLLIN>>}
                          ELSE {}]_vars

\* C17, amended: every write that leaves its copy loop notifies the receiver
\* with POLLIN, whether the queue was empty or not when it started to copy:
\* the queue holds bytes then and the receiver is attached.  No other step
\* of a write (the wait, the EPIPE return, the wake_all, the return of a
\* write of length 0) notifies anybody.
WriteNotifiesAlways ==
    [][\A t \in Threads :
        /\ LeavesWriteLoop(t) =>
            /\ q[cur[t].b] # <<>>
            /\ receiver[cur[t].b] # NULL
            /\ last'.wakes = {<<receiver[cur[t].b], POLLIN>>}
        /\ (last'.t = t /\ ~LeavesWriteLoop(t)
                /\ (cur[t].op = "write" \/ cur'[t].op = "write"
                        \/ last'.op = "write"))
              => last'.wakes = {}]_vars

\* A write that found bytes in the queue has left its copy loop and has
\* notified the receiver.
NotifiedOnNonEmpty ==
    \E t \in Threads :
        /\ pc[t] = "w_wake"
        /\ cur[t].err = 0
        /\ cur[t].q0 > 0
        /\ last.t = t
        /\ last.wakes = {<<receiver[cur[t].b], POLLIN>>}

\* C18: a read or write that has started to copy never waits on a condition
\* variable again, and its copy loop ends: under fair scheduling the call
\* leaves the loop and goes on to return, for every request and every
\* segment layout.
CopyLoopTerminates ==
    /\ [][\A t \in Threads :
            pc[t] \in {"r_copy", "w_copy"}
                => pc'[t] \notin {"r_wait", "r_lock", "w_wait", "w_lock"}]_vars
    /\ \A t \in Threads : (pc[t] = "r_copy") ~> (pc[t] = "r_wake")
    /\ \A t \in Threads : (pc[t] = "w_copy") ~> (pc[t] = "w_wake")

\* C19: a call never moves more bytes than were requested: uio_resid never
\* goes below zero, for every queue state and every segment layout.
ResidNeverNegative ==
    \A t \in Threads :
        /\ uio[t].uio_resid >= 0
        /\ Moved(t) <= cur[t].orig

\* C20: every poll_wake of a step names a file that is open and that is, in
\* the state the step leaves, attached to the buffer in the role notified
\* (the sender for POLLOUT and POLLHUP, the receiver for POLLIN and
\* POLLRDHUP), never NULL; and no buffer refers to a closed file.
NotifyTargetsAttached ==
    /\ \A w \in last.wakes :
        /\ w[1] # NULL
        /\ f_data[w[1]] # NoPair
        /\ last.b \in Buffers =>
             IF w[2] \in {POLLOUT, POLLHUP}
             THEN sender[last.b] = w[1]
             ELSE receiver[last.b] = w[1]
    /\ \A f \in Files :
        (sp.pc = "done" /\ f_data[f] = NoPair)
            => \A b \in Buffers : sender[b] # f /\ receiver[b] # f

====
